---- MODULE Spec2Model ----
(***************************************************************************)
(* Model of the indexing-and-retrieval engine of DocumentIntelligence      *)
(* (src/search_engine.py): preprocess_text, create_index,                  *)
(* search_documents and extract_snippets, and of the session of the        *)
(* application that calls it (src/app.py): Process Documents, Clear All    *)
(* Documents, Search and Clear.                                            *)
(*                                                                         *)
(* A Python str is a sequence of one-character strings.  A Python dict is  *)
(* a sequence of <<key, value>> pairs with distinct keys, in insertion     *)
(* order (dicts iterate in insertion order).  A float that the code        *)
(* obtains as freq / max_freq, or as a sum of such quotients, is the exact *)
(* fraction <<numerator, denominator>> in lowest terms.                    *)
(***************************************************************************)
EXTENDS Integers, Sequences, FiniteSets, TLC

(***************************************************************************)
(* Characters and the str methods the code uses                            *)
(***************************************************************************)
LowerLetters ==
    <<"a","b","c","d","e","f","g","h","i","j","k","l","m",
      "n","o","p","q","r","s","t","u","v","w","x","y","z">>

UpperLetters ==
    <<"A","B","C","D","E","F","G","H","I","J","K","L","M",
      "N","O","P","Q","R","S","T","U","V","W","X","Y","Z">>

LowerSet == {LowerLetters[i] : i \in DOMAIN LowerLetters}

UpperSet == {UpperLetters[i] : i \in DOMAIN UpperLetters}

Digits == {"0","1","2","3","4","5","6","7","8","9"}

\* str.isspace on one character
IsSpace(c) == c \in {" ", "\t", "\n"}

\* str.isalpha on one character
IsAlphaChar(c) == c \in LowerSet \/ c \in UpperSet

\* the regex class \w on one character
IsWordChar(c) == IsAlphaChar(c) \/ c \in Digits \/ c = "_"

\* str.lower on one character
LowerChar(c) ==
    IF c \in UpperSet
    THEN LowerLetters[CHOOSE i \in DOMAIN UpperLetters : UpperLetters[i] = c]
    ELSE c

\* str.lower
lower(s) == [i \in 1..Len(s) |-> LowerChar(s[i])]

\* str.isalpha: every character alphabetic and at least one character
isalpha(s) == Len(s) > 0 /\ \A i \in 1..Len(s) : IsAlphaChar(s[i])

Min(a, b) == IF a < b THEN a ELSE b

Max(a, b) == IF a > b THEN a ELSE b

\* s[a:b] for 0 <= a, 0 <= b (Python's 0-based, end-exclusive slice)
Slice(s, a, b) ==
    LET hi == Min(b, Len(s))
    IN  IF a >= hi THEN <<>> ELSE [i \in 1..(hi - a) |-> s[a + i]]

\* s[:b]
Prefix(s, b) == Slice(s, 0, b)

\* s.startswith(t, at) with a 0-based offset
StartsWithAt(s, t, at) ==
    /\ at + Len(t) <= Len(s)
    /\ \A i \in 1..Len(t) : s[at + i] = t[i]

\* t in s (substring test)
Contains(s, t) == \E at \in 0..Len(s) : StartsWithAt(s, t, at)

\* s.endswith(t)
EndsWith(s, t) == Len(t) <= Len(s) /\ StartsWithAt(s, t, Len(s) - Len(t))

\* s.rfind(' ', start, end): the highest 0-based index in [start, end) that
\* holds a space, -1 when there is none
RFindSpace(s, start, end) ==
    LET hits == {i \in start..(Min(end, Len(s)) - 1) : s[i + 1] = " "}
    IN  IF hits = {} THEN -1 ELSE CHOOSE i \in hits : \A j \in hits : j <= i

Ellipsis == <<".", ".", ".">>

Stars == <<"*", "*">>

RECURSIVE Concat(_)
\* "".join(parts)
Concat(parts) ==
    IF parts = <<>> THEN <<>> ELSE Head(parts) \o Concat(Tail(parts))

RECURSIVE JoinSpace(_)
\* " ".join(words)
JoinSpace(words) ==
    IF words = <<>> THEN <<>>
    ELSE IF Len(words) = 1 THEN words[1]
    ELSE words[1] \o <<" ">> \o JoinSpace(Tail(words))

\* the set of the elements of a sequence
Range(s) == {s[i] : i \in DOMAIN s}

\* every ordering of a finite set, as sequences without repetition
Orderings(S) ==
    {f \in [1..Cardinality(S) -> S] : \A i, j \in 1..Cardinality(S) : f[i] = f[j] => i = j}

\* the elements of S in the order in which they stand in seq
RECURSIVE Restrict(_, _)
Restrict(seq, S) ==
    IF seq = <<>> THEN <<>>
    ELSE IF Head(seq) \in S THEN <<Head(seq)>> \o Restrict(Tail(seq), S)
    ELSE Restrict(Tail(seq), S)

(***************************************************************************)
(* Python dicts: insertion-ordered sequences of <<key, value>>             *)
(***************************************************************************)
DictKeys(d) == [i \in 1..Len(d) |-> d[i][1]]

DictHas(d, k) == \E i \in 1..Len(d) : d[i][1] = k

DictGet(d, k) == d[CHOOSE i \in 1..Len(d) : d[i][1] = k][2]

\* d[k] = v: overwrite in place, or append a new key
DictSet(d, k, v) ==
    IF DictHas(d, k)
    THEN [i \in 1..Len(d) |-> IF d[i][1] = k THEN <<k, v>> ELSE d[i]]
    ELSE Append(d, <<k, v>>)

(***************************************************************************)
(* Floats as exact fractions                                               *)
(***************************************************************************)
RECURSIVE GCD(_, _)
GCD(a, b) == IF b = 0 THEN a ELSE GCD(b, a % b)

\* n / d in lowest terms (d > 0)
Frac(n, d) == LET g == GCD(n, d) IN <<n \div g, d \div g>>

FracZero == <<0, 1>>

FracOne == <<1, 1>>

FracAdd(x, y) == Frac(x[1] * y[2] + y[1] * x[2], x[2] * y[2])

FracLess(x, y) == x[1] * y[2] < y[1] * x[2]

FracLeq(x, y) == x[1] * y[2] <= y[1] * x[2]

(***************************************************************************)
(* preprocess_text (src/search_engine.py:20-42)                            *)
(***************************************************************************)
\* close the token being read, if any
Flush(cur, out) == IF cur = <<>> THEN out ELSE Append(out, cur)

RECURSIVE TokScan(_, _, _, _)
\* One left-to-right pass of nltk's word_tokenize over text made of letters,
\* digits, white space and the marks . ! ? : white space separates tokens,
\* ! and ? are tokens of their own wherever they stand, and a full stop is a
\* token of its own when it ends the text or is followed by white space (it
\* ends a sentence) and stays inside its token otherwise.
TokScan(s, i, cur, out) ==
    IF i > Len(s) THEN Flush(cur, out)
    ELSE IF IsSpace(s[i]) THEN TokScan(s, i + 1, <<>>, Flush(cur, out))
    ELSE IF s[i] \in {"!", "?"} \/ (s[i] = "." /\ (i = Len(s) \/ IsSpace(s[i + 1])))
         THEN TokScan(s, i + 1, <<>>, Append(Flush(cur, out), <<s[i]>>))
    ELSE TokScan(s, i + 1, Append(cur, s[i]), out)

word_tokenize(text) == TokScan(text, 1, <<>>, <<>>)

\* members of nltk's English stopword list
stop_words ==
    { <<"t","h","e">>, <<"a">>, <<"a","n">>, <<"a","n","d">>, <<"o","f">>,
      <<"i","s">>, <<"i","n">>, <<"t","o">>, <<"i","t">> }

\* PorterStemmer step 1a: SSES -> SS, IES -> I (IE for a four-letter word),
\* SS -> SS, S -> (nothing)
Step1a(w) ==
    IF EndsWith(w, <<"i","e","s">>) /\ Len(w) = 4 THEN Prefix(w, 3)
    ELSE IF EndsWith(w, <<"s","s","e","s">>) THEN Prefix(w, Len(w) - 2)
    ELSE IF EndsWith(w, <<"i","e","s">>) THEN Prefix(w, Len(w) - 2)
    ELSE IF EndsWith(w, <<"s","s">>) THEN w
    ELSE IF EndsWith(w, <<"s">>) THEN Prefix(w, Len(w) - 1)
    ELSE w

\* PorterStemmer.stem on the words of the model's texts and queries: a word
\* of at most two letters is returned as it is; step 1a strips the plural;
\* the later steps (1b to 5b) find none of their suffixes in these words.
stem(w) == IF Len(w) <= 2 THEN w ELSE Step1a(w)

\* a slip in line 37: nothing is taken for a stopword
NeverStopWord(token) == FALSE

\* line 37: token in stop_words
IsStopWord(token) == token \in stop_words

RECURSIVE Distinct(_)
\* a sequence without the repetitions of its elements
Distinct(s) ==
    IF s = <<>> THEN <<>>
    ELSE LET front == Distinct(SubSeq(s, 1, Len(s) - 1))
         IN  IF s[Len(s)] \in Range(front) THEN front ELSE Append(front, s[Len(s)])

\* a slip in line 40: every stem is returned once
preprocess_text_distinct(text) ==
    LET tokens  == word_tokenize(lower(text))
        alpha   == SelectSeq(tokens, isalpha)
        NotStop(t) == ~IsStopWord(t)
        content == SelectSeq(alpha, NotStop)
    IN  Distinct([i \in 1..Len(content) |-> stem(content[i])])

preprocess_text(text) ==
    LET tokens  == word_tokenize(lower(text))
        alpha   == SelectSeq(tokens, isalpha)
        NotStop(t) == ~IsStopWord(t)
        content == SelectSeq(alpha, NotStop)
    IN  [i \in 1..Len(content) |-> stem(content[i])]

(***************************************************************************)
(* create_index (src/search_engine.py:44-78)                               *)
(***************************************************************************)
RECURSIVE CountTokens(_, _)
\* lines 62-67: term_freq, one key per distinct token in order of first
\* occurrence
CountTokens(tokens, term_freq) ==
    IF tokens = <<>> THEN term_freq
    ELSE LET token == Head(tokens)
         IN  CountTokens(Tail(tokens),
                 IF DictHas(term_freq, token)
                 THEN DictSet(term_freq, token, DictGet(term_freq, token) + 1)
                 ELSE DictSet(term_freq, token, 1))

RECURSIVE MaxOf(_)
\* max(values) of a non-empty sequence of numbers
MaxOf(values) ==
    IF Len(values) = 1 THEN values[1] ELSE Max(values[1], MaxOf(Tail(values)))

\* a slip in line 70: the count of the first term instead of the largest
FirstFreq(term_freq) == IF term_freq = <<>> THEN 1 ELSE term_freq[1][2]

\* line 70: max(term_freq.values()) if term_freq else 1
MaxFreq(term_freq) ==
    IF term_freq = <<>> THEN 1
    ELSE MaxOf([i \in 1..Len(term_freq) |-> term_freq[i][2]])

\* a slip in line 76: the divisor one too large
WeightOffByOne(freq, max_freq) == Frac(freq, max_freq + 1)

\* line 76: the weight stored for one token of one document
Weight(freq, max_freq) == Frac(freq, max_freq)

RECURSIVE AddPostings(_, _, _, _)
\* lines 71-76: the loop over term_freq.items() for one document
AddPostings(index, doc_id, items, max_freq) ==
    IF items = <<>> THEN index
    ELSE LET token == items[1][1]
             freq  == items[1][2]
             idx1  == IF DictHas(index, token) THEN index
                      ELSE DictSet(index, token, <<>>)
             idx2  == DictSet(idx1, token,
                          DictSet(DictGet(idx1, token), doc_id, Weight(freq, max_freq)))
         IN  AddPostings(idx2, doc_id, Tail(items), max_freq)

RECURSIVE IndexDocs(_, _)
\* lines 57-76: the loop over documents.items()
IndexDocs(items, index) ==
    IF items = <<>> THEN index
    ELSE LET doc_id    == items[1][1]
             tokens    == preprocess_text(items[1][2].content)
             term_freq == CountTokens(tokens, <<>>)
             max_freq  == MaxFreq(term_freq)
         IN  IndexDocs(Tail(items), AddPostings(index, doc_id, term_freq, max_freq))

\* line 54 starts from the empty index
create_index(documents) == IndexDocs(documents, <<>>)

(***************************************************************************)
(* extract_snippets (src/search_engine.py:135-202)                         *)
(***************************************************************************)
\* the regex assertion \b at the 0-based position at of text
WordBoundary(text, at) ==
    LET before == at >= 1 /\ IsWordChar(text[at])
        after  == at < Len(text) /\ IsWordChar(text[at + 1])
    IN  before # after

RECURSIVE LetterRun(_, _)
\* the end of the longest run of [a-zA-Z] that starts at the 0-based position at
LetterRun(text, at) ==
    IF at < Len(text) /\ IsAlphaChar(text[at + 1]) THEN LetterRun(text, at + 1) ELSE at

\* a slip in line 155: two characters are taken for the prefix, not three
PrefixOfTwo(term) == IF Len(term) > 2 THEN Prefix(term, 2) ELSE term

\* line 155: term[:3] if len(term) > 3 else term
PrefixOf(term) == IF Len(term) > 3 THEN Prefix(term, 3) ELSE term

\* the end of the match of \b prefix [a-zA-Z]* \b that starts at the 0-based
\* position at, or -1: the star is greedy and backtracks to the longest run
\* that ends at a word boundary
MatchEnd(text, prefix, at) ==
    IF ~(WordBoundary(text, at) /\ StartsWithAt(text, prefix, at)) THEN -1
    ELSE LET ends == {e \in (at + Len(prefix))..LetterRun(text, at + Len(prefix)) :
                          WordBoundary(text, e)}
         IN  IF ends = {} THEN -1 ELSE CHOOSE e \in ends : \A f \in ends : f <= e

RECURSIVE FindAllFrom(_, _, _)
\* line 157: re.findall scans from the left and resumes after each match
FindAllFrom(text, prefix, at) ==
    IF at >= Len(text) THEN <<>>
    ELSE LET e == MatchEnd(text, prefix, at)
         IN  IF e > at THEN <<Slice(text, at, e)>> \o FindAllFrom(text, prefix, e)
             ELSE FindAllFrom(text, prefix, at + 1)

RECURSIVE SurfaceMatches(_, _)
\* lines 151-158: original_terms before the duplicates are removed
SurfaceMatches(content, query_terms) ==
    IF query_terms = <<>> THEN <<>>
    ELSE FindAllFrom(lower(content), PrefixOf(Head(query_terms)), 0)
             \o SurfaceMatches(content, Tail(query_terms))

\* the distinct surface forms of the query terms in the content
SurfaceForms(content, query_terms) == Range(SurfaceMatches(content, query_terms))

\* line 160: list(set(original_terms)); the iteration order of a set of
\* strings is fixed by the hash seed of the process, here by set_order
ListOfSet(original_terms, set_order) == Restrict(set_order, Range(original_terms))

RECURSIVE SpaceRun(_, _)
\* the end of the longest run of white space that starts at the 0-based position at
SpaceRun(text, at) ==
    IF at < Len(text) /\ IsSpace(text[at + 1]) THEN SpaceRun(text, at + 1) ELSE at

RECURSIVE SplitFrom(_, _, _)
\* line 168: re.split(r'(?<=[.!?])\s+', content); start is where the
\* current piece begins, at the position the scan has reached
SplitFrom(content, start, at) ==
    IF at >= Len(content) THEN <<Slice(content, start, Len(content))>>
    ELSE IF at >= 1 /\ content[at] \in {".", "!", "?"} /\ IsSpace(content[at + 1])
         THEN <<Slice(content, start, at)>>
                  \o SplitFrom(content, SpaceRun(content, at), SpaceRun(content, at))
    ELSE SplitFrom(content, start, at + 1)

SplitSentences(content) == SplitFrom(content, 0, 0)

\* a slip in lines 173-174: the sentence is searched as it is written, not
\* lowercased
SentenceMatchesCased(sentence, original_terms) ==
    \E i \in 1..Len(original_terms) : Contains(sentence, original_terms[i])

\* line 174: any(term in sentence_lower for term in original_terms)
SentenceMatches(sentence, original_terms) ==
    \E i \in 1..Len(original_terms) : Contains(lower(sentence), original_terms[i])

RECURSIVE SubFrom(_, _, _, _)
\* lines 188-189: re.compile(re.escape(term), re.IGNORECASE).sub(repl, text)
SubFrom(text, term, repl, at) ==
    IF at >= Len(text) THEN <<>>
    ELSE IF at + Len(term) <= Len(text) /\ lower(Slice(text, at, at + Len(term))) = term
         THEN repl \o SubFrom(text, term, repl, at + Len(term))
    ELSE <<text[at + 1]>> \o SubFrom(text, term, repl, at + 1)

\* f"**{term}**"
Marked(term) == Stars \o term \o Stars

RECURSIVE Highlight(_, _)
\* lines 185-189: one substitution per surface form, each on the result of
\* the one before
Highlight(sentence, original_terms) ==
    IF original_terms = <<>> THEN sentence
    ELSE Highlight(SubFrom(sentence, Head(original_terms), Marked(Head(original_terms)), 0),
                   Tail(original_terms))

\* a slip in lines 194-196: always cut at max_length, in the middle of a word
TruncateHard(highlighted, max_length) ==
    IF Len(highlighted) > max_length
    THEN Prefix(highlighted, max_length) \o Ellipsis
    ELSE highlighted

\* lines 192-198
Truncate(highlighted, max_length) ==
    IF Len(highlighted) > max_length
    THEN LET found       == RFindSpace(highlighted, max_length \div 2, max_length)
             break_point == IF found = -1 THEN max_length ELSE found
         IN  Prefix(highlighted, break_point) \o Ellipsis
    ELSE highlighted

\* lines 165 and 179: the start of the document
Fallback(content, max_length) == <<Prefix(content, max_length) \o Ellipsis>>

\* a slip in lines 171-175: every sentence is kept, matching or not
AllSentences(content, original_terms) == SplitSentences(content)

\* lines 171-175
MatchingSentences(content, original_terms) ==
    LET Hit(sentence) == SentenceMatches(sentence, original_terms)
    IN  SelectSeq(SplitSentences(content), Hit)

\* lines 183-189: the highlighted sentences before they are truncated
Highlighted(content, original_terms, num_snippets) ==
    LET chosen == Prefix(MatchingSentences(content, original_terms), num_snippets)
    IN  [i \in 1..Len(chosen) |-> Highlight(chosen[i], original_terms)]

extract_snippets(content, query_terms, num_snippets, max_length, set_order) ==
    LET original_terms == ListOfSet(SurfaceMatches(content, query_terms), set_order)
    IN  IF original_terms = <<>> THEN Fallback(content, max_length)
        ELSE IF MatchingSentences(content, original_terms) = <<>>
             THEN Fallback(content, max_length)
        ELSE LET highlighted == Highlighted(content, original_terms, num_snippets)
             IN  [i \in 1..Len(highlighted) |-> Truncate(highlighted[i], max_length)]

(***************************************************************************)
(* search_documents (src/search_engine.py:80-133)                          *)
(***************************************************************************)
DefaultNumSnippets == 3

DefaultMaxLength == 200

RECURSIVE AddWeights(_, _)
\* lines 107-110: the loop over index[token].items()
AddWeights(scores, postings) ==
    IF postings = <<>> THEN scores
    ELSE LET doc_id      == postings[1][1]
             term_weight == postings[1][2]
             sc1 == IF DictHas(scores, doc_id) THEN scores
                    ELSE DictSet(scores, doc_id, FracZero)
         IN  AddWeights(DictSet(sc1, doc_id, FracAdd(DictGet(sc1, doc_id), term_weight)),
                        Tail(postings))

\* line 105: the tokens the scoring loop runs over: query_tokens itself, with
\* its repetitions (the query_vector of line 101 is never read)
ScoredTokens(query_tokens) == query_tokens

RECURSIVE ScoreLoop(_, _, _)
\* lines 105-110: the loop over the query tokens
ScoreLoop(tokens, index, scores) ==
    IF tokens = <<>> THEN scores
    ELSE ScoreLoop(Tail(tokens), index,
             IF DictHas(index, Head(tokens))
             THEN AddWeights(scores, DictGet(index, Head(tokens)))
             ELSE scores)

RECURSIVE ZeroScores(_, _)
\* a score of 0 for every document of the index
ZeroScores(index, scores) ==
    IF index = <<>> THEN scores
    ELSE ZeroScores(Tail(index),
             LET ids == DictKeys(index[1][2])
                 new == SelectSeq(ids, LAMBDA id : ~DictHas(scores, id))
             IN  scores \o [i \in 1..Len(new) |-> <<new[i], FracZero>>])

\* a slip in line 104: scores starts with every indexed document at 0
ScoresOfAll(query_tokens, index) ==
    ScoreLoop(ScoredTokens(query_tokens), index, ZeroScores(index, <<>>))

\* lines 104-110
Scores(query_tokens, index) == ScoreLoop(ScoredTokens(query_tokens), index, <<>>)

\* a slip in line 113: a sort that is not stable, item goes ahead of the
\* elements of equal score
InsertAheadOfEqual(sorted, item) ==
    LET ahead == {i \in 1..Len(sorted) : FracLess(item[2], sorted[i][2])}
        n     == IF ahead = {} THEN 0 ELSE CHOOSE i \in ahead : \A j \in ahead : j <= i
    IN  SubSeq(sorted, 1, n) \o <<item>> \o SubSeq(sorted, n + 1, Len(sorted))

\* one step of a stable sort by descending score: item goes behind every
\* element whose score is not smaller
InsertByScore(sorted, item) ==
    LET ahead == {i \in 1..Len(sorted) : FracLeq(item[2], sorted[i][2])}
        n     == IF ahead = {} THEN 0 ELSE CHOOSE i \in ahead : \A j \in ahead : j <= i
    IN  SubSeq(sorted, 1, n) \o <<item>> \o SubSeq(sorted, n + 1, Len(sorted))

RECURSIVE SortLoop(_, _)
SortLoop(items, sorted) ==
    IF items = <<>> THEN sorted
    ELSE SortLoop(Tail(items), InsertByScore(sorted, Head(items)))

\* a slip in line 113: reverse=True left out
RankedAscending(scores) ==
    LET down == SortLoop(scores, <<>>)
    IN  [i \in 1..Len(down) |-> down[Len(down) + 1 - i]]

\* line 113: sorted(scores.items(), key=lambda x: x[1], reverse=True)
RankedResults(scores) == SortLoop(scores, <<>>)

\* a slip in line 117: one result too many
TruncatedOffByOne(ranked_results, max_results) == Prefix(ranked_results, max_results + 1)

\* line 117: ranked_results[:max_results]
Truncated(ranked_results, max_results) == Prefix(ranked_results, max_results)

\* lines 118-131: one result record
ResultOf(doc_id, score, documents, query_tokens, set_order) ==
    LET doc == DictGet(documents, doc_id)
    IN  [doc_id   |-> doc_id,
         filename |-> doc.filename,
         score    |-> score,
         snippets |-> extract_snippets(doc.content, query_tokens,
                          DefaultNumSnippets, DefaultMaxLength, set_order),
         metadata |-> doc.metadata]

\* what a call returns: a list, or the KeyError of line 118
Returned(list) == [raised |-> "", value |-> list]

Raised(what) == [raised |-> what, value |-> <<>>]

\* set_orders[doc_id] is the iteration order of the set of surface forms in
\* the extract_snippets call made for doc_id
search_documents(query, index, documents, max_results, set_orders) ==
    LET query_tokens == preprocess_text(query)
        shown == Truncated(RankedResults(Scores(query_tokens, index)), max_results)
    IN  IF query_tokens = <<>> THEN Returned(<<>>)
        ELSE IF \E i \in 1..Len(shown) : ~DictHas(documents, shown[i][1])
             THEN Raised("KeyError")
        ELSE Returned([i \in 1..Len(shown) |->
                 ResultOf(shown[i][1], shown[i][2], documents, query_tokens,
                          set_orders[shown[i][1]])])

\* the choices of set_orders for a call of search_documents
SetOrders(query, index, documents, max_results) ==
    LET query_tokens == preprocess_text(query)
        shown == Truncated(RankedResults(Scores(query_tokens, index)), max_results)
        ids   == {id \in {shown[i][1] : i \in 1..Len(shown)} : DictHas(documents, id)}
        Forms(id) == SurfaceForms(DictGet(documents, id).content, query_tokens)
    IN  {f \in [ids -> UNION {Orderings(Forms(id)) : id \in ids}] :
             \A id \in ids : f[id] \in Orderings(Forms(id))}

(***************************************************************************)
(* The application's ingestion (src/document_processor.py,                 *)
(* src/ai_text_generator.py, src/app.py)                                   *)
(*                                                                         *)
(* An Optional value is <<>> for None and <<x>> for the value x.  An       *)
(* uploaded file is a record of its name and its data, the characters the  *)
(* file holds; only .txt files are modelled.                               *)
(***************************************************************************)
None == <<>>

Some(x) == <<x>>

\* bool(x) for an Optional dict: None and the empty dict are false
Truthy(optional) == optional # None /\ optional[1] # <<>>

RECURSIVE CollapseSpace(_)
\* re.sub(r'\s+', ' ', text) (document_processor.py:130)
CollapseSpace(text) ==
    IF text = <<>> THEN <<>>
    ELSE IF IsSpace(text[1])
         THEN IF Len(text) > 1 /\ IsSpace(text[2]) THEN CollapseSpace(Tail(text))
              ELSE <<" ">> \o CollapseSpace(Tail(text))
    ELSE <<text[1]>> \o CollapseSpace(Tail(text))

\* str.strip on a text whose white space is single spaces
Strip(text) ==
    LET a == IF text # <<>> /\ text[1] = " " THEN 2 ELSE 1
        b == IF Len(text) >= a /\ text[Len(text)] = " " THEN Len(text) - 1 ELSE Len(text)
    IN  SubSeq(text, a, b)

\* document_processor.py:124-138; the model's characters hold none of the
\* control characters of line 136
clean_text(text) == IF text = <<>> THEN <<>> ELSE Strip(CollapseSpace(text))

\* len(file.readlines()): the lines of the data
LineCount(data) ==
    Cardinality({i \in 1..Len(data) : data[i] = "\n"})
        + (IF data # <<>> /\ data[Len(data)] # "\n" THEN 1 ELSE 0)

\* document_processor.py:98-122: the cleaned text and the metadata
extract_from_txt(data) ==
    <<clean_text(data), << <<"FileSize", Len(data)>>, <<"LineCount", LineCount(data)>> >> >>

\* line 115 of app.py: str(hash(name + str(size))); equal strings have
\* equal hashes, and the hashes of different strings are taken to differ
DocIdOf(name, size) == name \o ToString(size)

\* ai_text_generator.py:95: re.findall(r'\b[a-zA-Z]{3,}\b', text.lower())
LongWords(text) ==
    SelectSeq(FindAllFrom(lower(text), <<>>, 0), LAMBDA w : Len(w) >= 3)

\* ai_text_generator.py:87-91
generator_stopwords ==
    { <<"t","h","e">>, <<"a","n","d">>, <<"f","o","r">>, <<"w","i","t","h">>,
      <<"f","r","o","m">>, <<"a","r","e">>, <<"w","a","s">>, <<"w","e","r","e">>,
      <<"b","e","e","n">>, <<"b","e","i","n","g">>, <<"h","a","v","e">>,
      <<"h","a","s">>, <<"h","a","d">>, <<"d","o","e","s">>, <<"d","i","d">>,
      <<"b","u","t">>, <<"n","o","t">>, <<"t","h","i","s">>, <<"t","h","a","t">>,
      <<"t","h","e","s","e">>, <<"t","h","o","s","e">>, <<"t","h","e","y">>,
      <<"t","h","e","m">>, <<"t","h","e","i","r">>, <<"i","t","s">> }

\* the (word, count) pairs in the order of descending count, stably
\* (ai_text_generator.py:102 and 257)
ByCount(word_counts) ==
    LET ranked == RankedResults([i \in 1..Len(word_counts) |->
                      <<word_counts[i][1], Frac(word_counts[i][2], 1)>>])
    IN  [i \in 1..Len(ranked) |-> <<ranked[i][1], ranked[i][2][1]>>]

\* ai_text_generator.py:84-103
get_common_terms(text, count) ==
    LET words  == SelectSeq(LongWords(text), LAMBDA w : w \notin generator_stopwords)
        sorted == ByCount(CountTokens(words, <<>>))
    IN  DictKeys(Prefix(sorted, count))

\* len(content.split())
WordCount(text) ==
    Cardinality({i \in 1..Len(text) :
                    ~IsSpace(text[i]) /\ (i = 1 \/ IsSpace(text[i - 1]))})

\* round(n / d): to the nearest integer, a half to the even one
Round(n, d) ==
    LET q == n \div d
        r == n % d
    IN  IF 2 * r < d THEN q
        ELSE IF 2 * r > d THEN q + 1
        ELSE IF q % 2 = 0 THEN q ELSE q + 1

WordsPerMinute == 200

ShortText == 50

\* ai_text_generator.py:105-117: the summary of a text of fewer than 50
\* characters; a longer text, which the model has none of, gets a summary
\* put together from its key phrases
generate_summary(text) ==
    IF Len(text) < ShortText
    THEN "The provided text is too short to generate a meaningful summary."
    ELSE "a summary of the key phrases"

\* ai_text_generator.py:146-186, without the document_type, whose wording
\* is drawn at random and read by nothing but the display
analyze_document(content, metadata) ==
    LET reading_minutes == Max(1, Round(WordCount(content), WordsPerMinute))
    IN  [ summary      |-> generate_summary(content),
          key_topics   |-> get_common_terms(content, 5),
          reading_time |-> ToString(reading_minutes) \o " minute"
                              \o (IF reading_minutes # 1 THEN "s" ELSE "") ]

RECURSIVE AllTerms(_)
\* ai_text_generator.py:249-254
AllTerms(items) ==
    IF items = <<>> THEN <<>>
    ELSE get_common_terms(items[1][2].content, 10) \o AllTerms(Tail(items))

\* ai_text_generator.py:231-296; the sentences of the recommendations and
\* connections are tuples of their kind and the names they mention
generate_insights(documents) ==
    LET common_terms  == ByCount(CountTokens(AllTerms(documents), <<>>))
        first         == Prefix(common_terms, 5)
        common_themes == DictKeys(SelectSeq(first, LAMBDA tc : tc[2] > 1))
        has_themes    == common_themes # <<>>
    IN  [ common_themes   |-> common_themes,
          recommendations |->
              IF ~has_themes THEN <<>>
              ELSE (IF Len(common_themes) >= 2
                    THEN << <<"relationship", common_themes[1], common_themes[2]>> >>
                    ELSE <<>>)
                   \o << <<"mention", common_themes[1]>>, <<"connections">> >>,
          connections     |->
              IF has_themes /\ Len(documents) > 1
              THEN << <<"both", documents[1][2].filename, documents[2][2].filename>>,
                      <<"cross-reference">> >>
              ELSE <<>> ]

RECURSIVE ProcessFiles(_, _, _)
\* app.py:105-140: the loop over the uploaded files; the result is the
\* pair of documents and document_analyses after it
ProcessFiles(files, documents, analyses) ==
    IF files = <<>> THEN <<documents, analyses>>
    ELSE LET uploaded_file == Head(files)
             doc_id    == DocIdOf(uploaded_file.name, Len(uploaded_file.data))
             extracted == extract_from_txt(uploaded_file.data)
             content   == extracted[1]
             metadata  == extracted[2]
         IN  IF content # <<>>
             THEN ProcessFiles(Tail(files),
                      DictSet(documents, doc_id,
                              [content  |-> content,
                               filename |-> uploaded_file.name,
                               metadata |-> metadata]),
                      DictSet(analyses, doc_id, analyze_document(content, metadata)))
             ELSE ProcessFiles(Tail(files), documents, analyses)

DefaultMaxResults == 10

(***************************************************************************)
(* The callers' inputs                                                     *)
(***************************************************************************)
\* the words document texts are made of: a capitalised plural that ends a
\* sentence, a plain noun and a stopword
Words == { <<"C","a","t","s",".">>, <<"d","o","g">>, <<"t","h","e">> }

MaxDocs == 2

MaxTotalWords == 3

MaxResults == 2

DocIds == <<"d1", "d2", "d3", "d4">>

FileNames == <<"a.txt", "b.txt", "c.txt", "d.txt">>

\* the sequences of at most n elements of S
SeqsUpTo(S, n) == UNION {[1..m -> S] : m \in 0..n}

\* a documents mapping as the application stores it (src/app.py:119-123):
\* the i-th document inserted has the i-th id
DocumentsOf(wordSeqs) ==
    [i \in 1..Len(wordSeqs) |->
        <<DocIds[i], [content  |-> JoinSpace(wordSeqs[i]),
                      filename |-> FileNames[i],
                      metadata |-> <<>>]>>]

RECURSIVE WordSeqLists(_, _)
\* the lists of at most n word sequences that hold at most budget words in all
WordSeqLists(n, budget) ==
    IF n = 0 THEN {<<>>}
    ELSE {<<>>} \cup
         UNION {{<<ws>> \o rest : rest \in WordSeqLists(n - 1, budget - Len(ws))} :
                    ws \in SeqsUpTo(Words, budget)}

Collections == {DocumentsOf(x) : x \in WordSeqLists(MaxDocs, MaxTotalWords)}

qCats == <<"c","a","t","s">>

qDog == <<"d","o","g">>

qThe == <<"t","h","e">>

\* the queries: empty, blank, stopwords only, one term, a repeated term,
\* two terms in both orders, a term beside a stopword
Queries ==
    { <<>>, <<" ">>, qThe, qCats, qDog,
      JoinSpace(<<qCats, qCats>>), JoinSpace(<<qCats, qDog>>),
      JoinSpace(<<qDog, qCats>>), JoinSpace(<<qThe, qDog>>) }

\* the pieces the texts given to extract_snippets are made of
Pieces ==
    { <<"c","a","t">>, <<"C","a","t","s">>, <<"d","o","g">>, <<" ">>, <<".", " ">> }

MaxPieces == 3

MaxLength == 10

Contents == {Concat(ps) : ps \in SeqsUpTo(Pieces, MaxPieces)}

\* the query_terms given to extract_snippets: what preprocess_text makes of
\* a query, as in line 123
TermLists == {preprocess_text(q) : q \in {qCats, qDog, JoinSpace(<<qDog, qCats>>)}}

(***************************************************************************)
(* State                                                                   *)
(***************************************************************************)
VARIABLES
    pc,              \* where the caller stands
    documents,       \* the documents mapping
    index,           \* the index create_index returned; in a session of the
                     \* application st.session_state.index, an Optional
    query,           \* the arguments of the last search_documents call
    max_results,
    search_results,  \* what the last search_documents call returned; in a
                     \* session st.session_state.search_results, a list
    content,         \* the arguments of the extract_snippets call
    query_terms,
    num_snippets,
    max_length,
    original_terms,  \* extract_snippets' local after line 160
    highlighted,     \* the highlighted sentences before lines 191-198
    snippets,        \* what extract_snippets returned
    calls,           \* the create_index calls made so far: argument and result
    uploaded_files,      \* the uploader's files at the last Process Documents
    document_analyses,   \* st.session_state.document_analyses
    document_insights,   \* st.session_state.document_insights
    search_error         \* the st.error message the Search handler showed in
                         \* the last run of the script, "" when it showed none

coreVars == <<documents, index, query, max_results, search_results>>

snippetVars ==
    <<content, query_terms, num_snippets, max_length, original_terms, highlighted, snippets>>

callVars == <<calls>>

sessionVars == <<uploaded_files, document_analyses, document_insights, search_error>>

vars == <<pc, coreVars, snippetVars, callVars, sessionVars>>

NoCore ==
    /\ documents = <<>>
    /\ index = <<>>
    /\ query = <<>>
    /\ max_results = 0
    /\ search_results = Returned(<<>>)

NoSnippet ==
    /\ content = <<>>
    /\ query_terms = <<>>
    /\ num_snippets = 0
    /\ max_length = 0
    /\ original_terms = <<>>
    /\ highlighted = <<>>
    /\ snippets = <<>>

NoCalls == calls = <<>>

NoSession ==
    /\ uploaded_files = <<>>
    /\ document_analyses = <<>>
    /\ document_insights = <<>>
    /\ search_error = ""

(***************************************************************************)
(* A caller of create_index and search_documents                           *)
(***************************************************************************)
\* a caller holds a documents mapping and has called nothing yet
CoreInit ==
    /\ pc = "start"
    /\ documents \in Collections
    /\ index = <<>>
    /\ query = <<>>
    /\ max_results = 0
    /\ search_results = Returned(<<>>)
    /\ NoSnippet
    /\ NoCalls
    /\ NoSession

\* index = create_index(documents)
CreateIndex ==
    /\ pc = "start"
    /\ index' = create_index(documents)
    /\ pc' = "indexed"
    /\ UNCHANGED <<documents, query, max_results, search_results,
                   snippetVars, callVars, sessionVars>>

RECURSIVE WithDefaults(_, _)
\* index.setdefault(token, {}) for every token
WithDefaults(tokens, idx) ==
    IF tokens = <<>> THEN idx
    ELSE WithDefaults(Tail(tokens),
             IF DictHas(idx, Head(tokens)) THEN idx ELSE DictSet(idx, Head(tokens), <<>>))

\* a slip in lines 106-107: the scoring loop reads index.setdefault(token, {})
\* and so writes the query's unknown terms into the caller's index
SearchDocumentsWriting ==
    /\ pc = "indexed"
    /\ \E q \in Queries, k \in 0..MaxResults :
         \E orders \in SetOrders(q, index, documents, k) :
           /\ query' = q
           /\ max_results' = k
           /\ search_results' = search_documents(q, index, documents, k, orders)
           /\ index' = WithDefaults(preprocess_text(q), index)
    /\ pc' = "searched"
    /\ UNCHANGED <<documents, snippetVars, callVars, sessionVars>>

\* results = search_documents(q, index, documents, k)
SearchDocuments ==
    /\ pc = "indexed"
    /\ \E q \in Queries, k \in 0..MaxResults :
         \E orders \in SetOrders(q, index, documents, k) :
           /\ query' = q
           /\ max_results' = k
           /\ search_results' = search_documents(q, index, documents, k, orders)
    /\ pc' = "searched"
    /\ UNCHANGED <<documents, index, snippetVars, callVars, sessionVars>>

CoreNext == CreateIndex \/ SearchDocuments

SpecCore == CoreInit /\ [][CoreNext]_vars

(***************************************************************************)
(* A caller of extract_snippets                                            *)
(***************************************************************************)
SnippetInit ==
    /\ pc = "call"
    /\ content \in Contents
    /\ query_terms \in TermLists
    /\ num_snippets \in {1, DefaultNumSnippets}
    /\ max_length \in 0..MaxLength
    /\ original_terms = <<>>
    /\ highlighted = <<>>
    /\ snippets = <<>>
    /\ NoCore
    /\ NoCalls
    /\ NoSession

\* snippets = extract_snippets(content, query_terms, num_snippets, max_length)
ExtractSnippets ==
    /\ pc = "call"
    /\ \E set_order \in Orderings(SurfaceForms(content, query_terms)) :
         /\ original_terms' = ListOfSet(SurfaceMatches(content, query_terms), set_order)
         /\ highlighted' =
                IF MatchingSentences(content, original_terms') = <<>> THEN <<>>
                ELSE Highlighted(content, original_terms', num_snippets)
         /\ snippets' =
                extract_snippets(content, query_terms, num_snippets, max_length, set_order)
    /\ pc' = "returned"
    /\ UNCHANGED <<coreVars, content, query_terms, num_snippets, max_length,
                   callVars, sessionVars>>

SnippetNext == ExtractSnippets

SpecSnippet == SnippetInit /\ [][SnippetNext]_vars

(***************************************************************************)
(* A caller of extract_snippets whose query has a token of four letters    *)
(***************************************************************************)
\* the pieces of these texts: a word that is the three-letter prefix, a
\* capitalised longer word, a word that shares two letters with them, a
\* digit, a space and a full stop
FormPieces ==
    { <<"c","a","r">>, <<"C","a","r","t","s">>, <<"c","a","t">>,
      <<"2">>, <<" ">>, <<".">> }

FormContents == {Concat(ps) : ps \in SeqsUpTo(FormPieces, MaxPieces)}

qCarts == <<"c","a","r","t","s">>

qCat == <<"c","a","t">>

qCa == <<"c","a">>

\* tokens of four, three and two letters, alone and together
FormTermLists ==
    {preprocess_text(q) : q \in {qCarts, qCat, qCa, JoinSpace(<<qCarts, qCat>>),
                                 JoinSpace(<<qCarts, qCa>>)}}

\* the call of line 123 on such a text
FormsInit ==
    /\ pc = "call"
    /\ content \in FormContents
    /\ query_terms \in FormTermLists
    /\ num_snippets = DefaultNumSnippets
    /\ max_length = DefaultMaxLength
    /\ original_terms = <<>>
    /\ highlighted = <<>>
    /\ snippets = <<>>
    /\ NoCore
    /\ NoCalls
    /\ NoSession

SpecForms == FormsInit /\ [][SnippetNext]_vars

(***************************************************************************)
(* A caller that builds the index again and again                          *)
(***************************************************************************)
\* the mappings the caller replaces its documents by: none, one document,
\* and two documents with another term
Replacements ==
    {DocumentsOf(x) : x \in { <<>>, << <<qDog>> >>,
                              << <<qCats, qDog>>, <<qDog>> >> }}

RebuildInit ==
    /\ pc = "start"
    /\ documents \in Collections
    /\ index = <<>>
    /\ query = <<>>
    /\ max_results = 0
    /\ search_results = Returned(<<>>)
    /\ NoSnippet
    /\ NoCalls
    /\ NoSession

\* a slip in line 54: the index is not started afresh, the postings of the
\* earlier call stay in it
StaleIndex == IndexDocs(documents, index)

\* what create_index returns for the documents the caller holds
FreshIndex == create_index(documents)

\* index = create_index(documents): the first call, a second call on the
\* unchanged mapping, a call after the mapping was replaced and a call
\* after the first mapping was put back
CallCreateIndex ==
    /\ pc \in {"start", "first", "changed", "restored"}
    /\ index' = FreshIndex
    /\ calls' = Append(calls, [documents |-> documents, index |-> index'])
    /\ pc' = CASE pc = "start"    -> "first"
               [] pc = "first"    -> "second"
               [] pc = "changed"  -> "third"
               [] pc = "restored" -> "fourth"
    /\ UNCHANGED <<documents, query, max_results, search_results,
                   snippetVars, sessionVars>>

\* the caller replaces its documents mapping by another one
ChangeDocuments ==
    /\ pc = "second"
    /\ documents' \in Replacements \ {documents}
    /\ pc' = "changed"
    /\ UNCHANGED <<index, query, max_results, search_results,
                   snippetVars, callVars, sessionVars>>

\* the caller puts the mapping of its first call back
RestoreDocuments ==
    /\ pc = "third"
    /\ documents' = calls[1].documents
    /\ pc' = "restored"
    /\ UNCHANGED <<index, query, max_results, search_results,
                   snippetVars, callVars, sessionVars>>

RebuildNext == CallCreateIndex \/ ChangeDocuments \/ RestoreDocuments

SpecRebuild == RebuildInit /\ [][RebuildNext]_vars

(***************************************************************************)
(* A caller whose two documents differ in how often they hold two terms    *)
(***************************************************************************)
MaxCount == 2

\* the word sequence with c times cats and then d times dog
CountText(c, d) == [i \in 1..(c + d) |-> IF i <= c THEN qCats ELSE qDog]

\* two documents, each with 0..MaxCount occurrences of each of the two terms
CountCollections ==
    {DocumentsOf(<<CountText(a[1], a[2]), CountText(b[1], b[2])>>) :
        a, b \in (0..MaxCount) \X (0..MaxCount)}

RankingInit ==
    /\ pc = "start"
    /\ documents \in CountCollections
    /\ index = <<>>
    /\ query = <<>>
    /\ max_results = 0
    /\ search_results = Returned(<<>>)
    /\ NoSnippet
    /\ NoCalls
    /\ NoSession

SpecRanking == RankingInit /\ [][CoreNext]_vars

(***************************************************************************)
(* A caller that removes documents without building the index again        *)
(***************************************************************************)
\* documents.pop(doc_id) for the i-th document of the mapping
WithoutItem(d, i) == [j \in 1..(Len(d) - 1) |-> IF j < i THEN d[j] ELSE d[j + 1]]

\* the caller removes a document and keeps the index it built before
DropDocument ==
    /\ pc = "indexed"
    /\ \E i \in 1..Len(documents) : documents' = WithoutItem(documents, i)
    /\ UNCHANGED <<pc, index, query, max_results, search_results,
                   snippetVars, callVars, sessionVars>>

StaleNext == CreateIndex \/ DropDocument \/ SearchDocuments

SpecStale == RankingInit /\ [][StaleNext]_vars

(***************************************************************************)
(* A caller whose one document holds a word and a longer form of it        *)
(***************************************************************************)
\* a documents mapping with one document of the given text
OneDocument(text) ==
    << <<DocIds[1], [content |-> text, filename |-> FileNames[1], metadata |-> <<>>]>> >>

TextsInit ==
    /\ pc = "start"
    /\ documents \in {OneDocument(text) : text \in Contents}
    /\ index = <<>>
    /\ query = <<>>
    /\ max_results = 0
    /\ search_results = Returned(<<>>)
    /\ NoSnippet
    /\ NoCalls
    /\ NoSession

SpecTexts == TextsInit /\ [][CoreNext]_vars

(***************************************************************************)
(* A caller of preprocess_text                                             *)
(***************************************************************************)
\* the words of the texts: a capitalised plural that ends a sentence, a
\* noun and its plural, a capitalised stopword, a number and a word with
\* a digit in it
NormWords ==
    { <<"C","a","t","s",".">>, <<"d","o","g">>, <<"d","o","g","s">>,
      <<"T","h","e">>, <<"4","2">>, <<"c","a","t","2">> }

MaxTextWords == 3

\* the texts: the empty text, blank texts and words with a space between
NormTexts ==
    {JoinSpace(ws) : ws \in SeqsUpTo(NormWords, MaxTextWords)}
        \cup { <<" ">>, <<" ", "\t", "\n">> }

NormalizeInit ==
    /\ pc = "text"
    /\ query \in NormTexts
    /\ documents = <<>>
    /\ index = <<>>
    /\ max_results = 0
    /\ search_results = Returned(<<>>)
    /\ NoSnippet
    /\ NoCalls
    /\ NoSession

\* query_tokens = preprocess_text(query) (line 94)
PreprocessText ==
    /\ pc = "text"
    /\ query_terms' = preprocess_text(query)
    /\ pc' = "normalized"
    /\ UNCHANGED <<coreVars, content, num_snippets, max_length, original_terms,
                   highlighted, snippets, callVars, sessionVars>>

NormalizeNext == PreprocessText

SpecNormalize == NormalizeInit /\ [][NormalizeNext]_vars

(***************************************************************************)
(* A session of the application (src/app.py)                               *)
(***************************************************************************)
\* what the uploaded files hold: a noun, a stopword of the same size, and
\* white space only
FileData == { <<"c","a","t">>, <<"t","h","e">>, <<" ">> }

Files == {[name |-> n, data |-> d] : n \in {"a.txt", "b.txt"}, d \in FileData}

\* what the uploader holds when Process Documents is clicked: nothing, one
\* file, or two files of different names
Uploads ==
    LET pairs == {fg \in Files \X Files :
                     /\ fg[1].name # fg[2].name
                     /\ fg[1].data # <<" ">>
                     /\ fg[2].data # <<" ">>}
    IN  ({ <<>> } \cup {<<f>> : f \in Files}) \cup {<<fg[1], fg[2]>> : fg \in pairs}

\* what the search box holds when Search is clicked
SessionQueries == { <<>>, qCat, qThe }

\* lines 61-73
SessionInit ==
    /\ pc = "started"
    /\ documents = <<>>
    /\ index = None
    /\ search_results = <<>>
    /\ document_analyses = <<>>
    /\ document_insights = None
    /\ uploaded_files = <<>>
    /\ search_error = ""
    /\ query = <<>>
    /\ max_results = 0
    /\ NoSnippet
    /\ NoCalls

\* lines 99-160: the Process Documents button
ProcessDocuments ==
    /\ \E files \in Uploads :
         /\ uploaded_files' = files
         /\ IF files # <<>>
            THEN LET done == ProcessFiles(files, documents, document_analyses)
                 IN  /\ documents' = done[1]
                     /\ document_analyses' = done[2]
                     /\ IF done[1] # <<>>
                        THEN /\ index' = Some(create_index(done[1]))
                             /\ document_insights' =
                                    IF Len(done[1]) > 1
                                    THEN Some(generate_insights(done[1]))
                                    ELSE document_insights
                        ELSE UNCHANGED <<index, document_insights>>
            ELSE UNCHANGED <<documents, document_analyses, index, document_insights>>
    /\ search_error' = ""
    /\ pc' = "processed"
    /\ UNCHANGED <<query, max_results, search_results, snippetVars, callVars>>

\* a slip in lines 166-170: the button empties documents and the search
\* results and forgets the index
ClearDocumentsOnly ==
    /\ documents # <<>>
    /\ documents' = <<>>
    /\ search_results' = <<>>
    /\ search_error' = ""
    /\ pc' = "cleared"
    /\ UNCHANGED <<index, query, max_results, snippetVars, callVars,
                   uploaded_files, document_analyses, document_insights>>

\* lines 163-170: the Clear All Documents button
ClearAllDocuments ==
    /\ documents # <<>>
    /\ documents' = <<>>
    /\ index' = None
    /\ search_results' = <<>>
    /\ search_error' = ""
    /\ pc' = "cleared"
    /\ UNCHANGED <<query, max_results, snippetVars, callVars,
                   uploaded_files, document_analyses, document_insights>>

\* line 195
IndexNotCreated == "Search index not created. Please process documents first."

\* lines 173-195: the Search button
Search ==
    /\ documents # <<>>
    /\ \E q \in SessionQueries :
         /\ query' = q
         /\ IF q # <<>> /\ Truthy(index)
            THEN \E orders \in SetOrders(q, index[1], documents, DefaultMaxResults) :
                   LET returned == search_documents(q, index[1], documents,
                                                    DefaultMaxResults, orders)
                   IN  search_results' =
                           IF returned.raised = "" THEN returned.value ELSE search_results
            ELSE UNCHANGED search_results
         /\ search_error' = IF q # <<>> /\ ~Truthy(index) THEN IndexNotCreated ELSE ""
    /\ pc' = "searched"
    /\ UNCHANGED <<documents, index, max_results, snippetVars, callVars,
                   uploaded_files, document_analyses, document_insights>>

\* lines 183 and 198-200: the Clear button beside the search box
ClearSearch ==
    /\ documents # <<>>
    /\ search_results' = <<>>
    /\ search_error' = ""
    /\ pc' = "results cleared"
    /\ UNCHANGED <<documents, index, query, max_results, snippetVars, callVars,
                   uploaded_files, document_analyses, document_insights>>

SessionNext == ProcessDocuments \/ ClearAllDocuments \/ Search \/ ClearSearch

SpecSession == SessionInit /\ [][SessionNext]_vars

(***************************************************************************)
(* Reference definitions the properties are stated with                    *)
(***************************************************************************)
\* the document ids of a documents mapping
IdsOf(docs) == Range(DictKeys(docs))

\* the normalized tokens of a stored document
TokensOf(docs, doc_id) == preprocess_text(DictGet(docs, doc_id).content)

\* how often term stands in a token sequence
Occurrences(tokens, term) == Cardinality({i \in 1..Len(tokens) : tokens[i] = term})

\* the largest occurrence count of any term of a token sequence
LargestCount(tokens) ==
    CHOOSE n \in 0..Len(tokens) :
        /\ \A i \in 1..Len(tokens) : Occurrences(tokens, tokens[i]) <= n
        /\ n > 0 => \E i \in 1..Len(tokens) : Occurrences(tokens, tokens[i]) = n

\* a dict has no key twice
WellFormed(d) == \A i, j \in 1..Len(d) : d[i][1] = d[j][1] => i = j

\* idx[term][doc_id] is defined
Posted(idx, term, doc_id) == DictHas(idx, term) /\ DictHas(DictGet(idx, term), doc_id)

\* idx[term].get(doc_id, 0), and 0 for a term that is no key of idx
WeightIn(idx, term, doc_id) ==
    IF Posted(idx, term, doc_id) THEN DictGet(DictGet(idx, term), doc_id) ELSE FracZero

\* every <<term, doc_id, weight>> stored in an index
Postings(idx) ==
    UNION {{<<idx[i][1], idx[i][2][j][1], idx[i][2][j][2]>> : j \in 1..Len(idx[i][2])} :
               i \in 1..Len(idx)}

RECURSIVE SumOverTerms(_, _, _)
\* the sum of idx[term].get(doc_id, 0) over a set of terms
SumOverTerms(terms, idx, doc_id) ==
    IF terms = {} THEN FracZero
    ELSE LET t == CHOOSE x \in terms : TRUE
         IN  FracAdd(WeightIn(idx, t, doc_id), SumOverTerms(terms \ {t}, idx, doc_id))

RECURSIVE SumOverTokens(_, _, _)
\* the same sum over a token sequence, one summand per position
SumOverTokens(tokens, idx, doc_id) ==
    IF tokens = <<>> THEN FracZero
    ELSE FracAdd(WeightIn(idx, Head(tokens), doc_id),
                 SumOverTokens(Tail(tokens), idx, doc_id))

Searched == pc = "searched"

Results == search_results.value

ResultIds == {Results[i].doc_id : i \in 1..Len(Results)}

QueryTokens == preprocess_text(query)

(***************************************************************************)
(* Properties of create_index                                              *)
(***************************************************************************)
\* C1: create_index returns exactly the reference index: index[term][doc_id]
\* is defined iff term occurs in the normalized tokens of doc_id, and is then
\* the term's occurrences divided by the largest occurrence count of any
\* term of that document; a document without tokens adds no entry and the
\* empty collection gives the empty index.
C1_IndexIsReference ==
    pc # "start" =>
        /\ WellFormed(index)
        /\ \A i \in 1..Len(index) : WellFormed(index[i][2]) /\ index[i][2] # <<>>
        /\ \A p \in Postings(index) :
              /\ p[2] \in IdsOf(documents)
              /\ Occurrences(TokensOf(documents, p[2]), p[1]) >= 1
        /\ \A d \in IdsOf(documents) :
              LET tokens == TokensOf(documents, d)
              IN  \A i \in 1..Len(tokens) :
                      /\ Posted(index, tokens[i], d)
                      /\ LET w == WeightIn(index, tokens[i], d)
                         IN  w[1] * LargestCount(tokens)
                                 = w[2] * Occurrences(tokens, tokens[i])
        /\ documents = <<>> => index = <<>>

\* an index built from a document without tokens and a document in which
\* one term is twice as frequent as another
C1_Witness ==
    /\ pc = "indexed"
    /\ \E d \in IdsOf(documents) : TokensOf(documents, d) = <<>>
    /\ \E p \in Postings(index) : p[3] = <<1, 2>>

\* C2: every stored weight w satisfies 0 < w <= 1, and every document that
\* produced a token has a term whose weight for it is exactly 1.
C2_WeightBound ==
    pc # "start" =>
        /\ \A p \in Postings(index) : FracLess(FracZero, p[3]) /\ FracLeq(p[3], FracOne)
        /\ \A d \in IdsOf(documents) :
              TokensOf(documents, d) # <<>> =>
                  \E p \in Postings(index) : p[2] = d /\ p[3] = FracOne

\* an index that stores, for one document, a weight below 1 beside a weight 1
C2_Witness ==
    /\ pc = "indexed"
    /\ \E p, r \in Postings(index) :
          p[2] = r[2] /\ FracLess(p[3], FracOne) /\ r[3] = FracOne

(***************************************************************************)
(* Properties of search_documents                                          *)
(***************************************************************************)
\* C3: the score of a result is the sum, over the distinct normalized query
\* tokens that are in the index, of index[term].get(doc_id, 0); a token that
\* stands several times in the query contributes once.
C3_ScoreOfDistinctTokens ==
    Searched =>
        \A i \in 1..Len(Results) :
            Results[i].score = SumOverTerms(Range(QueryTokens), index, Results[i].doc_id)

\* C4: a document whose normalized text shares no token with the normalized
\* query is in no result list, whatever max_results is; every result has a
\* score above 0.
C4_NoOverlapNoResult ==
    Searched =>
        \A i \in 1..Len(Results) :
            /\ FracLess(FracZero, Results[i].score)
            /\ Range(TokensOf(documents, Results[i].doc_id)) \cap Range(QueryTokens) # {}

\* a search that returned a document and left out one that has tokens but
\* none of the query's, although max_results had room for it
C4_Witness ==
    /\ Searched
    /\ Len(Results) = 1
    /\ max_results >= 2
    /\ \E d \in IdsOf(documents) \ ResultIds :
          /\ TokensOf(documents, d) # <<>>
          /\ Range(TokensOf(documents, d)) \cap Range(QueryTokens) = {}

\* C5: the results are in the order of non-increasing score, and no document
\* left out of the list has a higher score than a document in it.
C5_OrderedByScore ==
    Searched =>
        /\ \A i, j \in 1..Len(Results) :
              i < j => FracLeq(Results[j].score, Results[i].score)
        /\ \A d \in IdsOf(documents) \ ResultIds : \A i \in 1..Len(Results) :
              FracLeq(SumOverTokens(QueryTokens, index, d), Results[i].score)

\* two results of different score, the document inserted second ranked first
C5_Witness ==
    /\ Searched
    /\ Len(Results) = 2
    /\ Results[1].doc_id = DocIds[2]
    /\ FracLess(Results[2].score, Results[1].score)

\* the documents a query gives a score above 0
Scored ==
    {d \in IdsOf(documents) : FracLess(FracZero, SumOverTokens(QueryTokens, index, d))}

\* C6: with max_results = k >= 0 there are at most k results, none when
\* k = 0, and all documents of positive score when these are fewer than k.
C6_MaxResultsBound ==
    Searched =>
        /\ Len(Results) <= max_results
        /\ max_results = 0 => Results = <<>>
        /\ Cardinality(Scored) < max_results => Len(Results) = Cardinality(Scored)
        /\ Len(Results) = Min(max_results, Cardinality(Scored))

\* two documents match and max_results = 1 cuts the list to one result
C6_Witness ==
    /\ Searched
    /\ max_results = 1
    /\ Cardinality(Scored) = 2
    /\ Len(Results) = 1

\* C7: search_documents returns the empty list, and raises nothing, when the
\* query is empty, blank or made of stopwords only (its normalized form is
\* empty) and when no normalized query token is a term of the index.
C7_EmptyResult ==
    Searched =>
        (   \/ query \in {<<>>, <<" ">>, qThe}
            \/ QueryTokens = <<>>
            \/ \A i \in 1..Len(QueryTokens) : ~DictHas(index, QueryTokens[i])
         => search_results = Returned(<<>>))

\* a query of stopwords only, on documents that hold that stopword and
\* indexed terms: the empty list is returned
C7_Witness ==
    /\ Searched
    /\ query = qThe
    /\ index # <<>>
    /\ \E d \in IdsOf(documents) :
          Contains(lower(DictGet(documents, d).content), qThe)
    /\ search_results = Returned(<<>>)

(***************************************************************************)
(* Properties of extract_snippets                                          *)
(***************************************************************************)
SnippetsReturned == pc = "returned"

\* the sentences the snippets are made from
Selected == Prefix(MatchingSentences(content, original_terms), num_snippets)

\* C8: when the raw text holds none of the query's surface forms there is
\* exactly one snippet, the first max_length characters of the raw text,
\* followed by an ellipsis only if the raw text is longer than max_length.
C8_FallbackEllipsisOnlyIfCut ==
    SnippetsReturned /\ original_terms = <<>> =>
        snippets = << IF Len(content) > max_length
                      THEN Prefix(content, max_length) \o Ellipsis
                      ELSE content >>

\* the positions of the characters of h that are no asterisk, in order
PlainPositions(h) == SelectSeq([i \in 1..Len(h) |-> i], LAMBDA i : h[i] # "*")

\* the n characters that stand at the 0-based position at of the sentence
\* have ** right before their first and right after their last character in
\* the highlighted sentence h
Enclosed(h, at, n) ==
    LET pos   == PlainPositions(h)
        first == pos[at + 1]
        last  == pos[at + n]
    IN  /\ first >= 3 /\ h[first - 1] = "*" /\ h[first - 2] = "*"
        /\ last + 2 <= Len(h) /\ h[last + 1] = "*" /\ h[last + 2] = "*"

\* C9: in each selected sentence, before truncation, every case-insensitive
\* occurrence of every surface form is enclosed by a pair of ** delimiters,
\* also when one surface form is a substring of another.
C9_EveryOccurrenceEnclosed ==
    SnippetsReturned =>
        \A i \in 1..Len(highlighted) : \A k \in 1..Len(original_terms) :
            \A at \in 0..Len(Selected[i]) :
                StartsWithAt(lower(Selected[i]), original_terms[k], at)
                    => Enclosed(highlighted[i], at, Len(original_terms[k]))

\* where a highlighted sentence h longer than m is cut: the last space at an
\* index in [m div 2, m), or m when there is none
BreakPoint(h, m) ==
    LET spaces == {j \in 0..(Len(h) - 1) : h[j + 1] = " " /\ m \div 2 <= j /\ j < m}
    IN  IF spaces = {} THEN m ELSE CHOOSE j \in spaces : \A l \in spaces : l <= j

QualifyingSentences(text, forms) ==
    SelectSeq(SplitSentences(text),
              LAMBDA sentence : \E form \in forms : Contains(lower(sentence), form))

\* a snippet without its ** delimiters
Unstarred(h) == SelectSeq(h, LAMBDA c : c # "*")

\* how many of the surface forms a sentence holds
FormsIn(sentence, forms) == Cardinality({f \in forms : Contains(lower(sentence), f)})

\* C11: when at least one sentence qualifies, there are min(num_snippets,
\* number of qualifying sentences) snippets, and the i-th snippet is made of
\* the i-th qualifying sentence in document order, however many matches the
\* sentences have: without its delimiters it reads as that sentence, or as
\* a start of it when it was cut.
C11_FirstQualifyingSentences ==
    SnippetsReturned =>
        LET qualifying == QualifyingSentences(content, SurfaceForms(content, query_terms))
        IN  qualifying # <<>> =>
              /\ Len(snippets) = Min(num_snippets, Len(qualifying))
              /\ Len(highlighted) = Len(snippets)
              /\ \A i \in 1..Len(snippets) :
                    /\ lower(Unstarred(highlighted[i])) = lower(qualifying[i])
                    /\ IF Len(highlighted[i]) <= max_length
                       THEN snippets[i] = highlighted[i]
                       ELSE /\ EndsWith(snippets[i], Ellipsis)
                            /\ LET kept == Unstarred(Prefix(snippets[i],
                                               Len(snippets[i]) - Len(Ellipsis)))
                               IN  lower(kept) = lower(Prefix(qualifying[i], Len(kept)))

\* num_snippets = 1 and two qualifying sentences of which the later one
\* holds more surface forms: the snippet is made of the earlier one
C11_Witness ==
    /\ SnippetsReturned
    /\ num_snippets = 1
    /\ LET forms      == SurfaceForms(content, query_terms)
           qualifying == QualifyingSentences(content, forms)
       IN  /\ Len(qualifying) = 2
           /\ FormsIn(qualifying[1], forms) < FormsIn(qualifying[2], forms)
           /\ Len(snippets) = 1
           /\ lower(Unstarred(highlighted[1])) = lower(qualifying[1])

\* the words of a text: its longest runs of word characters
TextWords(text) ==
    {Slice(text, a, b) : <<a, b>> \in
        {ab \in (0..Len(text)) \X (0..Len(text)) :
            /\ ab[1] < ab[2]
            /\ \A i \in (ab[1] + 1)..ab[2] : IsWordChar(text[i])
            /\ ab[1] = 0 \/ ~IsWordChar(text[ab[1]])
            /\ ab[2] = Len(text) \/ ~IsWordChar(text[ab[2] + 1])}}

\* how many leading characters two strings share
LeadingShared(w, t) ==
    CHOOSE n \in 0..Min(Len(w), Len(t)) :
        /\ \A i \in 1..n : w[i] = t[i]
        /\ n < Min(Len(w), Len(t)) => w[n + 1] # t[n + 1]

\* the words made of letters only that begin with the first 3 characters of
\* a token, or with the whole token when it has 3 characters or fewer
ExpectedForms(text, tokens) ==
    {w \in TextWords(lower(text)) :
        /\ isalpha(w)
        /\ \E i \in 1..Len(tokens) : LeadingShared(w, tokens[i]) >= Min(3, Len(tokens[i]))}

\* C12: the surface forms are exactly the distinct words of the lowercased
\* raw text that begin at a word boundary with the first 3 characters of a
\* normalized query token (the whole token when it has 3 characters or
\* fewer) and go on with letters to the next word boundary, each once; a
\* word that shares only 2 leading characters with the tokens, all longer
\* than 2 characters, is no surface form.
C12_SurfaceFormsExact ==
    SnippetsReturned =>
        /\ Range(original_terms) = ExpectedForms(content, query_terms)
        /\ \A i, j \in 1..Len(original_terms) :
              original_terms[i] = original_terms[j] => i = j
        /\ \A w \in TextWords(lower(content)) :
              (\A i \in 1..Len(query_terms) :
                    Len(query_terms[i]) > 2 /\ LeadingShared(w, query_terms[i]) <= 2)
                  => w \notin Range(original_terms)

\* the token cart and a text with the word cat, which shares two letters
\* with it and is no surface form, beside the surface form carts
C12_Witness ==
    /\ SnippetsReturned
    /\ query_terms = << <<"c","a","r","t">> >>
    /\ <<"c","a","t">> \in TextWords(lower(content))
    /\ Range(original_terms) = { <<"c","a","r","t","s">> }

(***************************************************************************)
(* Properties of repeated calls                                            *)
(***************************************************************************)
\* the terms of an index
TermsOf(idx) == Range(DictKeys(idx))

\* C13: create_index is idempotent and total: two calls on the same
\* documents mapping return structurally identical indexes, whatever was
\* built in between, and the index a call returns holds postings of the
\* mapping passed to it only, none of an earlier call's document set.
C13_RebuildDependsOnMappingOnly ==
    /\ Len(calls) = CASE pc = "start" -> 0
                      [] pc = "first" -> 1
                      [] pc \in {"second", "changed"} -> 2
                      [] pc \in {"third", "restored"} -> 3
                      [] pc = "fourth" -> 4
                      [] OTHER -> 0
    /\ \A i, j \in 1..Len(calls) :
          calls[i].documents = calls[j].documents => calls[i].index = calls[j].index
    /\ \A i \in 1..Len(calls) : \A p \in Postings(calls[i].index) :
          /\ p[2] \in IdsOf(calls[i].documents)
          /\ Occurrences(TokensOf(calls[i].documents, p[2]), p[1]) >= 1

\* four calls: two on the same mapping, one on a mapping that has a term
\* the first lacks and lacks a term the first has, and one on the first
\* mapping again, which returns what the first call returned
C13_Witness ==
    /\ pc = "fourth"
    /\ calls[2] = calls[1]
    /\ TermsOf(calls[3].index) \ TermsOf(calls[1].index) # {}
    /\ TermsOf(calls[1].index) \ TermsOf(calls[3].index) # {}
    /\ calls[4] = calls[1]

(***************************************************************************)
(* Properties of the ranking                                               *)
(***************************************************************************)
\* the score the last search gave a document: the score of its result, and
\* 0 when it is in no result
ScoreOfResult(doc_id) ==
    IF doc_id \in ResultIds
    THEN Results[CHOOSE i \in 1..Len(Results) : Results[i].doc_id = doc_id].score
    ELSE FracZero

\* document a holds every query term at least as often as document b, and
\* every other term exactly as often
Dominates(a, b) ==
    LET ta == TokensOf(documents, a)
        tb == TokensOf(documents, b)
    IN  \A t \in Range(ta) \cup Range(tb) \cup Range(QueryTokens) :
            IF t \in Range(QueryTokens)
            THEN Occurrences(ta, t) >= Occurrences(tb, t)
            ELSE Occurrences(ta, t) = Occurrences(tb, t)

\* C14: ranking monotonicity: when document A holds every query term at
\* least as often as document B and every other term exactly as often, the
\* score search_documents gives A is at least the score it gives B.
C14_RankingMonotone ==
    Searched /\ search_results.raised = "" /\ max_results >= Len(documents) =>
        \A a, b \in IdsOf(documents) :
            Dominates(a, b) => FracLeq(ScoreOfResult(b), ScoreOfResult(a))

\* the documents the index has a posting of a query token for and the
\* documents mapping lacks
MissingDocuments ==
    {p[2] : p \in {r \in Postings(index) : r[1] \in Range(QueryTokens)}} \ IdsOf(documents)

\* C15: when the index maps a query term to a document id that the
\* documents mapping lacks, search_documents raises, for every
\* max_results >= 1 and whatever rank the missing document has.
C15_MissingDocumentRaises ==
    Searched /\ max_results >= 1 /\ MissingDocuments # {} =>
        search_results.raised # ""

(***************************************************************************)
(* Properties of the calls' effects                                        *)
(***************************************************************************)
\* C16: the core is read-only on its inputs and keeps no state: a
\* create_index call leaves the documents mapping as it was and changes
\* nothing but the index it returns; a search_documents call leaves the
\* index and the documents mapping as they were and changes nothing but
\* the result it returns.
C16_ReadOnlyCalls ==
    [][ /\ pc = "start" /\ pc' = "indexed" =>
              /\ documents' = documents
              /\ UNCHANGED <<query, max_results, search_results,
                             snippetVars, callVars, sessionVars>>
        /\ pc = "indexed" /\ pc' = "searched" =>
              /\ index' = index
              /\ documents' = documents
              /\ UNCHANGED <<snippetVars, callVars, sessionVars>> ]_vars

\* a search that returned a result for a query with a term the index does
\* not hold: the index is still the one built from the documents
C16_Witness ==
    /\ Searched
    /\ Results # <<>>
    /\ \E i \in 1..Len(QueryTokens) : ~DictHas(index, QueryTokens[i])
    /\ index = create_index(documents)

\* C17: search_documents is deterministic: a call with the same query,
\* index, documents and max_results returns the same result sequence, with
\* the same text of every snippet, in whatever order the set of surface
\* forms is iterated while highlighting.
C17_SameResultInEveryOrder ==
    Searched =>
        \A orders \in SetOrders(query, index, documents, max_results) :
            search_documents(query, index, documents, max_results, orders) = search_results

(***************************************************************************)
(* Properties of preprocess_text                                           *)
(***************************************************************************)
RECURSIVE SplitOnSpace(_)
\* the longest runs of characters that are no white space, in order
SplitOnSpace(text) ==
    IF text = <<>> THEN <<>>
    ELSE IF IsSpace(text[1]) THEN SplitOnSpace(Tail(text))
    ELSE LET stops == {i \in 1..Len(text) : IsSpace(text[i])}
             n     == IF stops = {} THEN Len(text) + 1
                      ELSE CHOOSE i \in stops : \A j \in stops : i <= j
         IN  <<SubSeq(text, 1, n - 1)>> \o SplitOnSpace(SubSeq(text, n, Len(text)))

\* a word without the full stop that ends it
Bare(w) == IF w[Len(w)] = "." THEN SubSeq(w, 1, Len(w) - 1) ELSE w

\* the stems of the words that are made of letters only and are no
\* stopwords, one for every such word and in the order of the text
ExpectedTokens(text) ==
    LET words == SplitOnSpace(lower(text))
        kept  == SelectSeq(words, LAMBDA w : isalpha(Bare(w)) /\ Bare(w) \notin stop_words)
    IN  [i \in 1..Len(kept) |-> stem(Bare(kept[i]))]

\* C18: preprocess_text returns the stems of the tokens of its input that
\* are purely alphabetic and no stopwords, in the order of the input and
\* with their repetitions, and the empty sequence for an input that is
\* empty, white space only or without a letter.
C18_StemsInInputOrder ==
    pc = "normalized" =>
        /\ query_terms = ExpectedTokens(query)
        /\ (\A i \in 1..Len(query) : ~IsAlphaChar(query[i])) => query_terms = <<>>

\* a text of three words in which a noun stands first and its plural last,
\* with another word between them: the noun's stem is returned twice
C18_Witness ==
    /\ pc = "normalized"
    /\ Len(query_terms) = 3
    /\ query_terms[1] = query_terms[3]
    /\ query_terms[1] # query_terms[2]
    /\ Contains(query, <<"d","o","g","s">>)
    /\ Contains(query, <<"d","o","g"," ">>)

(***************************************************************************)
(* Properties of the application's session                                 *)
(***************************************************************************)
\* C19: document ids are unique per uploaded file: files that differ in
\* content are stored under different ids, so a Process Documents click
\* never replaces the content stored under an id and a stored document
\* stays as it was ingested.
C19_StoredDocumentNeverReplaced ==
    [][ pc' = "processed" =>
            \A id \in IdsOf(documents) \cap IdsOf(documents') :
                DictGet(documents', id).content = DictGet(documents, id).content ]_vars

\* C20: right after Clear All Documents nothing of the cleared documents
\* is left in the session: no document, no index, no search result, no
\* per-document analysis and no cross-document insights.
C20_NothingLeftAfterClearAll ==
    pc = "cleared" =>
        /\ documents = <<>>
        /\ index = None
        /\ search_results = <<>>
        /\ document_analyses = <<>>
        /\ document_insights = None

(***************************************************************************)
(* C21: in a session the index and the documents are always consistent:    *)
(* the index is unset exactly when no document is stored, and otherwise    *)
(* it is create_index of the documents stored now, so every document id    *)
(* in the index is a key of documents.                                     *)
(***************************************************************************)
\* the document ids that occur in the postings of an index
IndexedIds(idx) ==
    UNION { IdsOf(DictGet(idx, term)) : term \in Range(DictKeys(idx)) }

C21_IndexMatchesDocuments ==
    /\ index = None <=> documents = <<>>
    /\ documents # <<>> =>
         /\ index = Some(create_index(documents))
         /\ IndexedIds(index[1]) \subseteq IdsOf(documents)

\* two documents are stored after two clicks of Process Documents (the last
\* upload held one file), the index posts one of them only (the other holds a
\* stopword), and a search has run
C21_Witness ==
    /\ pc = "searched"
    /\ Len(documents) = 2
    /\ Len(uploaded_files) = 1
    /\ IndexedIds(index[1]) # {}
    /\ IndexedIds(index[1]) # IdsOf(documents)

(***************************************************************************)
(* C22: the highlight delimiters of the returned snippets are paired: for  *)
(* a raw text without '*', every snippet extract_snippets returns, cut or  *)
(* not, holds an even number of ** delimiters.                             *)
(***************************************************************************)
RECURSIVE CountDelimiters(_, _)
\* snippet.count('**') from the 0-based position at on: the occurrences of
\* ** from left to right, none overlapping another
CountDelimiters(snippet, at) ==
    IF at + Len(Stars) > Len(snippet) THEN 0
    ELSE IF StartsWithAt(snippet, Stars, at)
         THEN 1 + CountDelimiters(snippet, at + Len(Stars))
         ELSE CountDelimiters(snippet, at + 1)

C22_DelimitersPaired ==
    SnippetsReturned /\ ~Contains(content, <<"*">>) =>
        \A i \in 1..Len(snippets) : CountDelimiters(snippets[i], 0) % 2 = 0

(***************************************************************************)
(* C23: ties are resolved in a stable order: two documents of equal score  *)
(* appear in the results in the order in which they first received a       *)
(* score contribution, that is by query token order and, within a token,   *)
(* by the order of that term's posting map, which is the order of the      *)
(* documents mapping when the index was built.                             *)
(***************************************************************************)
RECURSIVE ContributionOrder(_, _)
\* the document ids in the order the scoring loop meets them: token by
\* token, and within a token in the order of its posting map
ContributionOrder(tokens, idx) ==
    IF tokens = <<>> THEN <<>>
    ELSE (IF DictHas(idx, Head(tokens)) THEN DictKeys(DictGet(idx, Head(tokens)))
          ELSE <<>>) \o ContributionOrder(Tail(tokens), idx)

\* the first position of doc_id in a sequence that holds it
FirstAt(seq, doc_id) ==
    CHOOSE i \in 1..Len(seq) : seq[i] = doc_id /\ \A j \in 1..(i - 1) : seq[j] # doc_id

C23_TiesInContributionOrder ==
    Searched =>
        /\ \A i, j \in 1..Len(Results) :
              i < j /\ Results[i].score = Results[j].score =>
                  LET order == ContributionOrder(QueryTokens, index)
                  IN  FirstAt(order, Results[i].doc_id) < FirstAt(order, Results[j].doc_id)
        /\ \A term \in Range(DictKeys(index)) :
              LET posting == DictKeys(DictGet(index, term))
              IN  posting = Restrict(DictKeys(documents), Range(posting))

\* two results of equal score, and the document inserted second is first:
\* the query's first token is posted for it only
C23_Witness ==
    /\ Searched
    /\ Len(Results) = 2
    /\ Results[1].score = Results[2].score
    /\ Results[1].doc_id = DocIds[2]
    /\ Len(QueryTokens) = 2
    /\ DictKeys(DictGet(index, QueryTokens[1])) = <<DocIds[2]>>

(***************************************************************************)
(* C24: highlighting only inserts delimiters: for a raw text without '*',  *)
(* an untruncated snippet without its ** delimiters is the sentence it     *)
(* was made from, character for character, upper and lower case included.  *)
(***************************************************************************)
RECURSIVE WithoutDelimiters(_, _)
\* snippet.replace('**', '') from the 0-based position at on
WithoutDelimiters(snippet, at) ==
    IF at >= Len(snippet) THEN <<>>
    ELSE IF StartsWithAt(snippet, Stars, at)
         THEN WithoutDelimiters(snippet, at + Len(Stars))
         ELSE <<snippet[at + 1]>> \o WithoutDelimiters(snippet, at + 1)

C24_HighlightKeepsText ==
    SnippetsReturned /\ ~Contains(content, <<"*">>) =>
        \A i \in 1..Len(highlighted) :
            Len(highlighted[i]) <= max_length =>
                WithoutDelimiters(snippets[i], 0) = Selected[i]

(***************************************************************************)
(* C25: whenever extract_snippets finds a surface form in the raw text, a  *)
(* sentence of the sentence split holds a surface form, so the second      *)
(* fallback (no qualifying sentence, the start of the document) is never   *)
(* taken and every snippet comes from a sentence that holds a surface      *)
(* form.                                                                   *)
(***************************************************************************)
\* sentence holds one of the surface forms, upper and lower case alike
HoldsForm(sentence, forms) ==
    \E k \in 1..Len(forms) :
        \E at \in 0..Len(sentence) : StartsWithAt(lower(sentence), forms[k], at)

C25_SecondFallbackNeverTaken ==
    SnippetsReturned /\ original_terms # <<>> =>
        LET sentences == Range(SplitSentences(content))
        IN  /\ \E sentence \in sentences : HoldsForm(sentence, original_terms)
            /\ highlighted # <<>>
            /\ Len(snippets) = Len(highlighted)
            /\ \A i \in 1..Len(snippets) :
                  \E sentence \in sentences :
                      /\ HoldsForm(sentence, original_terms)
                      /\ snippets[i] =
                             Truncate(Highlight(sentence, original_terms), max_length)

\* the first sentence of the text holds no surface form, a capitalised one
\* stands in a later sentence, and the snippet is made from that sentence
C25_Witness ==
    /\ SnippetsReturned
    /\ original_terms # <<>>
    /\ Len(SplitSentences(content)) >= 2
    /\ ~HoldsForm(SplitSentences(content)[1], original_terms)
    /\ \E sentence \in Range(SplitSentences(content)) :
          /\ HoldsForm(sentence, original_terms)
          /\ ~SentenceMatchesCased(sentence, original_terms)
    /\ Len(snippets) = 1
    /\ snippets # Fallback(content, max_length)

(***************************************************************************)
(* C26: in the application, with at least one document stored and Process  *)
(* Documents completed, a Search with a non-empty query runs               *)
(* search_documents and replaces the stored search results, also when the  *)
(* built index is empty because every stored document normalizes to zero   *)
(* tokens: that is an empty result and no 'index not created' error.       *)
(***************************************************************************)
C26_SearchAlwaysRuns ==
    pc = "searched" /\ query # <<>> =>
        /\ search_error = ""
        /\ \E orders \in SetOrders(query, index[1], documents, DefaultMaxResults) :
              search_results =
                  search_documents(query, index[1], documents,
                                   DefaultMaxResults, orders).value

====
